---- MODULE Spec2Model ----
(***************************************************************************)
(* Model of tools/run_coverage.py: one run of main(), the coverage         *)
(* pipeline  setup -> clean -> ctest -> collect -> merge -> export ->      *)
(* report -> [html -> show -> [docs -> copy]] -> gate -> exit.             *)
(*                                                                         *)
(* The file system is modelled by the objects main() touches: the coverage *)
(* directory, the raw profiles sparkle-<pid>.profraw in it, the merged     *)
(* profile, the text report, the HTML directory and the docs directory.    *)
(* Every file carries a generation: "stale" (left by an earlier run) or    *)
(* "fresh" (written during this run).  The directories named by --output,  *)
(* --html-dir and --docs-dir are taken to be three different directories.  *)
(* External tools are the environment: each invocation nondeterministicly  *)
(* succeeds or exits non-zero, and writes what it writes.  File-system     *)
(* calls other than unlink() in _clean_existing_profiles are taken to      *)
(* succeed, and llvm-cov export is taken to print a well-formed summary    *)
(* when it exits with status 0.                                            *)
(*                                                                         *)
(* Percentages are fixed-point integers in units of 1e-7 percent, so       *)
(* 85.0 is 850000000 and the gate's 1e-6 is 10.                            *)
(***************************************************************************)
EXTENDS Integers, Sequences, FiniteSets, TLC

VARIABLES
    config,         \* args.config, a sequence of one-character strings
    threshold,      \* args.threshold, fixed point
    html_dir,       \* TRUE iff args.html_dir is given (non-empty)
    docs_dir,       \* TRUE iff args.docs_dir is given (non-empty)
    ctest,          \* TRUE iff shutil.which("ctest") finds the executable
    coverage_dir,   \* TRUE iff the parent directory of --output exists
    profraw,        \* per pid, "absent", "stale" or "fresh": sparkle-<pid>.profraw
    profdata,       \* generation of coverage_dir/sparkle.profdata
    report,         \* the file at --output: [gen, line, func, region]
    html_exists,    \* TRUE iff the --html-dir directory exists
    html_entries,   \* its entries, a set of <<name, generation>>
    docs_exists,    \* TRUE iff the --docs-dir directory exists
    docs_entries,   \* its entries, a set of <<name, generation>>
    pc,             \* position of main()
    result,         \* "running", "return0", "return1" or "raised"
    profraw_files,  \* main()'s local profraw_files (set of pids)
    line_pct, func_pct, region_pct,   \* main()'s locals, fixed point
    ctest_cmd,      \* the argv _run_ctests passed to _run, <<>> if none
    merge_inputs,   \* the raw profiles passed to llvm-profdata merge
    warnings,       \* warnings printed to stderr
    failed,         \* the external tool that exited non-zero, or "none"
    log,            \* the side effects of this run, in order
    initial         \* the disk as it was when main() started

vars == <<config, threshold, html_dir, docs_dir, ctest, coverage_dir, profraw,
          profdata, report, html_exists, html_entries, docs_exists,
          docs_entries, pc, result, profraw_files, line_pct, func_pct,
          region_pct, ctest_cmd, merge_inputs, warnings, failed, log,
          initial>>

args == <<config, threshold, html_dir, docs_dir, ctest, initial>>
disk == <<coverage_dir, profraw, profdata, report, html_exists, html_entries,
          docs_exists, docs_entries>>
locals == <<profraw_files, line_pct, func_pct, region_pct, ctest_cmd,
            merge_inputs>>

(***************************************************************************)
(* Bounds                                                                  *)
(***************************************************************************)
\* number of distinct raw profile names sparkle-<pid>.profraw
MaxPid == 2
\* longest --config value
MaxCfgLen == 2

Pids == 1..MaxPid
\* entry names of the HTML and docs directories: a file and a directory
Names == {"index.html", "coverage"}
Chars == {" ", "<", ">", "D", "."}

RECURSIVE SeqsUpTo(_, _)
SeqsUpTo(S, n) ==
    IF n = 0 THEN {<<>>}
    ELSE LET shorter == SeqsUpTo(S, n - 1)
         IN shorter \cup {Append(s, c) : s \in {t \in shorter : Len(t) = n - 1}, c \in S}

Configs == SeqsUpTo(Chars, MaxCfgLen)
\* the --config value of the full pipeline runs, "D"; SpecCtests covers the others
PipelineConfigs == {<<"D">>}

\* thresholds: negative, zero, 85.0
Thresholds == {0 - 10000000, 0, 850000000}
\* measured line coverage: 0, 84.99, 84.9999995, 85.0, 100.0
LinePcts == {0, 849900000, 849999995, 850000000, 1000000000}
\* measured function and region coverage: 0, 100.0
OtherPcts == {0, 1000000000}

NoReport == [gen |-> "absent", line |-> 0, func |-> 0, region |-> 0]
StaleReport == [gen |-> "stale", line |-> 0, func |-> 0, region |-> 0]

(***************************************************************************)
(* Pure helpers                                                            *)
(***************************************************************************)
\* str.strip(): drop leading and trailing whitespace
RECURSIVE Strip(_)
Strip(s) ==
    IF s = <<>> THEN s
    ELSE IF Head(s) = " " THEN Strip(Tail(s))
    ELSE IF s[Len(s)] = " " THEN Strip(SubSeq(s, 1, Len(s) - 1))
    ELSE s

\* c in s
Contains(s, c) == \E i \in 1..Len(s) : s[i] = c

\* the path shutil.which("ctest") returned, as one argv token
CtestPath == <<"c", "t", "e", "s", "t">>
OutputOnFailure == <<"-", "-", "o", "u", "t", "p", "u", "t", "-", "o", "n", "-", "f", "a", "i", "l", "u", "r", "e">>
DashC == <<"-", "C">>

\* variant: only a value holding both brackets is treated as a placeholder
DefangBoth(cfg) == IF Contains(cfg, "<") /\ Contains(cfg, ">") THEN <<>> ELSE cfg

\* the cfg _run_ctests derives from --config
Defang(cfg) == IF Contains(cfg, "<") \/ Contains(cfg, ">") THEN <<>> ELSE cfg

\* the argv _run_ctests builds
CtestCommand(cfg_arg) ==
    LET cfg == Defang(Strip(cfg_arg))
    IN  IF cfg # <<>> /\ cfg # <<".">>
        THEN <<CtestPath, OutputOnFailure, DashC, cfg>>
        ELSE <<CtestPath, OutputOnFailure>>

\* f"{x:.2f}": x rounded to hundredths of a percent (round half to even)
Fmt2(x) ==
    LET q == x \div 100000
        r == x % 100000
    IN  IF r > 50000 \/ (r = 50000 /\ q % 2 = 1) THEN q + 1 ELSE q

\* the 1e-6 of the threshold comparison
Epsilon == 10

\* variant: the comparison without the tolerance
GateFailsNoEpsilon(t, p) == t > 0 /\ p < t

\* variant: no test that the threshold is positive, tolerance on the other side
GateFailsUnguarded(t, p) == p < t + Epsilon

\* the condition under which main() reports a threshold violation
GateFails(t, p) == t > 0 /\ p + Epsilon < t

\* exit status of the process: sys.exit(main()), or an uncaught exception
ExitStatus(r) ==
    CASE r = "return0" -> 0
      [] r = "return1" -> 1
      [] r = "raised" -> 1
      [] OTHER -> 0 - 1

\* a directory's entries after `new` is written into it: same names are replaced
Overwrite(entries, new) ==
    {e \in entries : \A n \in new : n[1] # e[1]} \cup new

\* coverage_dir.glob("sparkle-*.profraw")
Glob(files) == {p \in Pids : files[p] # "absent"}

(***************************************************************************)
(* Initial state: the arguments, the environment and the disk as an        *)
(* earlier run (or nothing) left it: any subset of raw profiles, a merged  *)
(* profile together with its report, a populated HTML directory, a         *)
(* populated docs directory.                                               *)
(***************************************************************************)
InitRun ==
    /\ threshold \in Thresholds
    /\ html_dir \in BOOLEAN
    /\ docs_dir \in BOOLEAN
    /\ ctest \in BOOLEAN
    /\ coverage_dir \in BOOLEAN
    /\ profraw \in [Pids -> {"absent", "stale"}]
    /\ profdata \in {"absent", "stale"}
    /\ report = IF profdata = "stale" THEN StaleReport ELSE NoReport
    /\ coverage_dir = FALSE =>
          /\ profraw = [p \in Pids |-> "absent"]
          /\ profdata = "absent"
    /\ html_exists \in BOOLEAN
    /\ html_entries = IF html_exists THEN Names \X {"stale"} ELSE {}
    /\ docs_exists \in BOOLEAN
    /\ docs_entries = IF docs_exists THEN Names \X {"stale"} ELSE {}
    /\ pc = "setup"
    /\ result = "running"
    /\ profraw_files = {}
    /\ line_pct = 0
    /\ func_pct = 0
    /\ region_pct = 0
    /\ ctest_cmd = <<>>
    /\ merge_inputs = {}
    /\ warnings = {}
    /\ failed = "none"
    /\ log = <<>>
    /\ initial = [coverage_dir |-> coverage_dir, profraw |-> profraw,
                  profdata |-> profdata, report |-> report,
                  html_exists |-> html_exists, html_entries |-> html_entries,
                  docs_exists |-> docs_exists, docs_entries |-> docs_entries]

Init ==
    /\ config \in PipelineConfigs
    /\ InitRun

\* every --config value up to MaxCfgLen, on a clean disk
InitCtests ==
    /\ config \in Configs
    /\ InitRun
    /\ threshold = 0
    /\ ~html_dir /\ ~docs_dir
    /\ coverage_dir /\ profdata = "absent" /\ report = NoReport
    /\ ~html_exists /\ ~docs_exists

(***************************************************************************)
(* main(), step by step                                                    *)
(***************************************************************************)
\* an uncaught exception leaves main()
Raise ==
    /\ pc' = "exit"
    /\ result' = "raised"

\* main() returns code
Return(code) ==
    /\ pc' = "exit"
    /\ result' = IF code = 0 THEN "return0" ELSE "return1"

\* variant: check=False, the exit status of the tool is ignored
RunUnchecked(tool, ok, next) ==
    /\ log' = Append(log, tool)
    /\ pc' = next
    /\ result' = result
    /\ failed' = IF ok THEN failed ELSE tool

\* subprocess.run(command, check=True): the tool runs; a non-zero exit raises
\* CalledProcessError, which nothing in main() catches
RunChecked(tool, ok, next) ==
    /\ log' = Append(log, tool)
    /\ IF ok THEN /\ pc' = next
                  /\ result' = result
                  /\ failed' = failed
             ELSE /\ failed' = tool
                  /\ Raise

\* coverage_dir.mkdir(parents=True, exist_ok=True)
Setup ==
    /\ pc = "setup"
    /\ coverage_dir' = TRUE
    /\ log' = IF coverage_dir THEN log ELSE Append(log, "mkdir_coverage")
    /\ pc' = "clean"
    /\ UNCHANGED <<args, profraw, profdata, report, html_exists, html_entries,
                   docs_exists, docs_entries, result, locals, warnings,
                   failed>>

\* _clean_existing_profiles: unlink every match; an OSError is a warning
CleanExistingProfiles ==
    /\ pc = "clean"
    /\ \E locked \in SUBSET Glob(profraw) :
          /\ profraw' = [p \in Pids |-> IF p \in locked THEN profraw[p] ELSE "absent"]
          /\ warnings' = IF locked = {} THEN warnings
                         ELSE warnings \cup {"unable to remove"}
          /\ log' = IF Glob(profraw) \ locked = {} THEN log
                    ELSE Append(log, "unlink_profraw")
    /\ pc' = "ctest"
    /\ UNCHANGED <<args, coverage_dir, profdata, report, html_exists,
                   html_entries, docs_exists, docs_entries, result, locals,
                   failed>>

\* _run_ctests when shutil.which finds nothing: RuntimeError
CtestMissing ==
    /\ pc = "ctest"
    /\ ~ctest
    /\ Raise
    /\ UNCHANGED <<args, disk, locals, warnings, failed, log>>

\* _run_ctests: the test processes write raw profiles, then ctest exits
RunCtests ==
    /\ pc = "ctest"
    /\ ctest
    /\ ctest_cmd' = CtestCommand(config)
    /\ \E written \in SUBSET Pids :
          profraw' = [p \in Pids |-> IF p \in written THEN "fresh" ELSE profraw[p]]
    /\ \E ok \in BOOLEAN : RunChecked("ctest", ok, "collect")
    /\ UNCHANGED <<args, coverage_dir, profdata, report, html_exists,
                   html_entries, docs_exists, docs_entries, profraw_files,
                   line_pct, func_pct, region_pct, merge_inputs, warnings>>

\* variant: the old merged profile is removed before the emptiness test
NoProfilesAfterUnlink ==
    /\ pc = "collect"
    /\ Glob(profraw) = {}
    /\ profdata' = "absent"
    /\ log' = IF profdata = "absent" THEN log ELSE Append(log, "unlink_profdata")
    /\ warnings' = warnings \cup {"no profraw"}
    /\ Return(1)
    /\ UNCHANGED <<args, coverage_dir, profraw, report, html_exists,
                   html_entries, docs_exists, docs_entries, locals, failed>>

\* main() lines 184-187: the glob found nothing
NoProfiles ==
    /\ pc = "collect"
    /\ Glob(profraw) = {}
    /\ warnings' = warnings \cup {"no profraw"}
    /\ Return(1)
    /\ UNCHANGED <<args, disk, locals, failed, log>>

\* main() lines 184-191: collect the raw profiles, drop the old merged profile
CollectProfiles ==
    /\ pc = "collect"
    /\ Glob(profraw) # {}
    /\ profraw_files' = Glob(profraw)
    /\ profdata' = "absent"
    /\ log' = IF profdata = "absent" THEN log ELSE Append(log, "unlink_profdata")
    /\ pc' = "merge"
    /\ UNCHANGED <<args, coverage_dir, profraw, report, html_exists,
                   html_entries, docs_exists, docs_entries, result, line_pct,
                   func_pct, region_pct, ctest_cmd, merge_inputs, warnings,
                   failed>>

\* _merge_profiles: llvm-profdata merge -sparse <profraw_files> -o profdata
MergeProfiles ==
    /\ pc = "merge"
    /\ merge_inputs' = {<<p, profraw[p]>> : p \in profraw_files}
    /\ \E ok \in BOOLEAN :
          /\ profdata' = IF ok THEN "fresh" ELSE profdata
          /\ RunChecked("merge", ok, "export")
    /\ UNCHANGED <<args, coverage_dir, profraw, report, html_exists,
                   html_entries, docs_exists, docs_entries, profraw_files,
                   line_pct, func_pct, region_pct, ctest_cmd, warnings>>

\* variant: the report is not written between the export and the HTML branch
ExportSummarySkipsReport ==
    /\ pc = "export"
    /\ \/ /\ line_pct' \in LinePcts
          /\ func_pct' \in OtherPcts
          /\ region_pct' \in OtherPcts
          /\ RunChecked("export", TRUE, "branch")
       \/ /\ UNCHANGED <<line_pct, func_pct, region_pct>>
          /\ RunChecked("export", FALSE, "branch")
    /\ UNCHANGED <<args, disk, profraw_files, ctest_cmd, merge_inputs, warnings>>

\* _export_summary and main() lines 197-200: llvm-cov export --summary-only
ExportSummary ==
    /\ pc = "export"
    /\ \/ /\ line_pct' \in LinePcts
          /\ func_pct' \in OtherPcts
          /\ region_pct' \in OtherPcts
          /\ RunChecked("export", TRUE, "report")
       \/ /\ UNCHANGED <<line_pct, func_pct, region_pct>>
          /\ RunChecked("export", FALSE, "report")
    /\ UNCHANGED <<args, disk, profraw_files, ctest_cmd, merge_inputs, warnings>>

\* _write_report: three percentages to two decimals, overwriting --output
WriteReport ==
    /\ pc = "report"
    /\ report' = [gen |-> "fresh", line |-> Fmt2(line_pct),
                  func |-> Fmt2(func_pct), region |-> Fmt2(region_pct)]
    /\ log' = Append(log, "write_report")
    /\ pc' = "branch"
    /\ UNCHANGED <<args, coverage_dir, profraw, profdata, html_exists,
                   html_entries, docs_exists, docs_entries, result, locals,
                   warnings, failed>>

\* _generate_html_report lines 114-116: rmtree the old directory, mkdir
PrepareHtmlDir ==
    /\ pc = "branch"
    /\ html_dir
    /\ html_exists' = TRUE
    /\ html_entries' = {}
    /\ log' = (IF html_exists THEN Append(log, "rmtree_html") ELSE log)
                  \o <<"mkdir_html">>
    /\ pc' = "show"
    /\ UNCHANGED <<args, coverage_dir, profraw, profdata, report, docs_exists,
                   docs_entries, result, locals, warnings, failed>>

\* _generate_html_report lines 118-147: llvm-cov show --format=html
ShowHtml ==
    /\ pc = "show"
    /\ \E written \in SUBSET Names, ok \in BOOLEAN :
          /\ ok => written # {}
          /\ html_entries' = Overwrite(html_entries, written \X {"fresh"})
          /\ RunChecked("show", ok, IF docs_dir THEN "docs" ELSE "gate")
    /\ UNCHANGED <<args, coverage_dir, profraw, profdata, report, html_exists,
                   docs_exists, docs_entries, locals, warnings>>

\* variant: mkdir(exist_ok=True) only, the old docs directory is kept
PrepareDocsDirNoWipe ==
    /\ pc = "docs"
    /\ docs_exists' = TRUE
    /\ docs_entries' = docs_entries
    /\ log' = IF docs_exists THEN log ELSE Append(log, "mkdir_docs")
    /\ pc' = "copy"
    /\ UNCHANGED <<args, coverage_dir, profraw, profdata, report, html_exists,
                   html_entries, result, locals, warnings, failed>>

\* main() lines 220-223: rmtree the old docs directory, mkdir
PrepareDocsDir ==
    /\ pc = "docs"
    /\ docs_exists' = TRUE
    /\ docs_entries' = {}
    /\ log' = (IF docs_exists THEN Append(log, "rmtree_docs") ELSE log)
                  \o <<"mkdir_docs">>
    /\ pc' = "copy"
    /\ UNCHANGED <<args, coverage_dir, profraw, profdata, report, html_exists,
                   html_entries, result, locals, warnings, failed>>

\* main() lines 224-230: copy every entry of html_dir into docs_dir
CopyDocs ==
    /\ pc = "copy"
    /\ docs_entries' = Overwrite(docs_entries, html_entries)
    /\ log' = Append(log, "copy_docs")
    /\ pc' = "gate"
    /\ UNCHANGED <<args, coverage_dir, profraw, profdata, report, html_exists,
                   html_entries, docs_exists, result, locals, warnings, failed>>

\* variant: --docs-dir without --html-dir is an error
DocsWithoutHtmlFatal ==
    /\ pc = "branch"
    /\ ~html_dir
    /\ docs_dir
    /\ warnings' = warnings \cup {"docs-dir without html-dir"}
    /\ Raise
    /\ UNCHANGED <<args, disk, locals, failed, log>>

\* main() lines 231-232: --docs-dir without --html-dir
DocsWithoutHtml ==
    /\ pc = "branch"
    /\ ~html_dir
    /\ docs_dir
    /\ warnings' = warnings \cup {"docs-dir without html-dir"}
    /\ pc' = "gate"
    /\ UNCHANGED <<args, disk, result, locals, failed, log>>

\* main() line 208 and 231 both false
NoHtml ==
    /\ pc = "branch"
    /\ ~html_dir
    /\ ~docs_dir
    /\ pc' = "gate"
    /\ UNCHANGED <<args, disk, result, locals, warnings, failed, log>>

\* main() lines 234-242: the threshold gate
CheckThreshold ==
    /\ pc = "gate"
    /\ log' = Append(log, "gate")
    /\ IF GateFails(threshold, line_pct)
       THEN /\ warnings' = warnings \cup {"threshold violation"}
            /\ Return(1)
       ELSE /\ warnings' = warnings
            /\ Return(0)
    /\ UNCHANGED <<args, disk, locals, failed>>

Next ==
    \/ Setup
    \/ CleanExistingProfiles
    \/ CtestMissing
    \/ RunCtests
    \/ NoProfiles
    \/ CollectProfiles
    \/ MergeProfiles
    \/ ExportSummary
    \/ WriteReport
    \/ PrepareHtmlDir
    \/ ShowHtml
    \/ PrepareDocsDir
    \/ CopyDocs
    \/ DocsWithoutHtml
    \/ NoHtml
    \/ CheckThreshold

Spec == Init /\ [][Next]_vars

\* the run up to and including _run_ctests
NextCtests ==
    \/ Setup
    \/ CleanExistingProfiles
    \/ CtestMissing
    \/ RunCtests

SpecCtests == InitCtests /\ [][NextCtests]_vars

(***************************************************************************)
(* Properties                                                              *)
(***************************************************************************)
InLog(e) == \E i \in 1..Len(log) : log[i] = e
Count(e) == Cardinality({i \in 1..Len(log) : log[i] = e})
Tools == {"ctest", "merge", "export", "show"}
Stale(entries) == {e \in entries : e[2] = "stale"}
Placeholder(cfg) == Contains(cfg, "<") \/ Contains(cfg, ">")

\* C1: when an external tool (ctest, llvm-profdata merge, llvm-cov export,
\* llvm-cov show) exits non-zero, main() is left at once by the exception with
\* exit status 1: the failing invocation is the last side effect of the run,
\* no tool is invoked twice, and after a failing test run the report and the
\* merged profile are what they were before the run.
C1_ToolFailureAborts ==
    /\ \A t \in Tools : Count(t) <= 1
    /\ failed # "none" =>
          /\ pc = "exit"
          /\ result = "raised"
          /\ ExitStatus(result) = 1
          /\ log # <<>>
          /\ log[Len(log)] = failed
    /\ failed = "ctest" =>
          /\ report = initial.report
          /\ profdata = initial.profdata
          /\ merge_inputs = {}

\* C1 witness: the test run failed after writing raw profiles, next to an old report
C1_Witness ==
    /\ failed = "ctest"
    /\ pc = "exit"
    /\ Glob(profraw) # {}
    /\ initial.report = StaleReport

\* C2: when the test runner has returned successfully and no sparkle-*.profraw
\* exists, main() returns 1 having run no merge, export, report write, HTML
\* generation, docs copy or gate, and the previous merged profile is untouched.
C2_NoProfilesReturnsOne ==
    (InLog("ctest") /\ failed # "ctest" /\ Glob(profraw) = {}) =>
        /\ \/ pc = "collect" /\ result = "running"
           \/ pc = "exit" /\ result = "return1" /\ ExitStatus(result) = 1
        /\ log[Len(log)] = "ctest"
        /\ merge_inputs = {}
        /\ profdata = initial.profdata
        /\ report = initial.report
        /\ html_entries = initial.html_entries
        /\ docs_entries = initial.docs_entries

\* C2 witness: main() returned 1 for lack of raw profiles, an old merged profile on disk
C2_Witness ==
    /\ pc = "exit"
    /\ result = "return1"
    /\ InLog("ctest")
    /\ Glob(profraw) = {}
    /\ initial.profdata = "stale"
    /\ profdata = "stale"

\* C3: the raw profiles passed to the merge tool are exactly those written
\* during this run's test execution; no stale profile is among them, whatever
\* the outcome of the cleanup.
C3_MergeInputsFresh ==
    InLog("merge") =>
        merge_inputs = {<<p, "fresh">> : p \in {q \in Pids : profraw[q] = "fresh"}}

\* C4: with a threshold t > 0 the gate returns 1 iff p + 1e-6 < t, and 0
\* otherwise, whatever the function and region percentages are; with t = 85.0,
\* p = 84.9999995 passes and p = 84.99 fails.
C4_GateIffBelowThreshold ==
    (InLog("gate") /\ threshold > 0) =>
        /\ result = "return1" <=> line_pct + Epsilon < threshold
        /\ result = "return0" <=> ~(line_pct + Epsilon < threshold)
        /\ (threshold = 850000000 /\ line_pct = 849999995) => ExitStatus(result) = 0
        /\ (threshold = 850000000 /\ line_pct = 849900000) => ExitStatus(result) = 1

\* C4 witness: 84.9999995 passes a threshold of 85.0 with 0% function and region coverage
C4_Witness ==
    /\ InLog("gate")
    /\ threshold = 850000000
    /\ line_pct = 849999995
    /\ func_pct = 0
    /\ region_pct = 0
    /\ result = "return0"

\* C5: with a zero or negative threshold the gate returns 0 for every measured
\* line coverage, 0% included.
C5_GateDisabled ==
    (InLog("gate") /\ threshold <= 0) =>
        /\ result = "return0"
        /\ ExitStatus(result) = 0

\* C5 witness: the gate was reached with threshold 0 and 0% line coverage
C5_Witness ==
    /\ InLog("gate")
    /\ threshold = 0
    /\ line_pct = 0
    /\ result = "return0"

\* C6: for a --config value holding '<' or '>', the command _run_ctests builds
\* has no -C flag and no argument equal to the value (stripped or not), and
\* the test runner is invoked all the same.
C6_PlaceholderConfigOmitted ==
    (ctest /\ pc \notin {"setup", "clean", "ctest"} /\ Placeholder(config)) =>
        /\ InLog("ctest")
        /\ Len(ctest_cmd) >= 1
        /\ ctest_cmd[1] = CtestPath
        /\ \A i \in 1..Len(ctest_cmd) :
              /\ ctest_cmd[i] # DashC
              /\ ctest_cmd[i] # config
              /\ ctest_cmd[i] # Strip(config)

\* C6 witness: ctest was run for a value holding '>' but no '<'
C6_Witness ==
    /\ InLog("ctest")
    /\ Contains(config, ">")
    /\ ~Contains(config, "<")
    /\ Contains(config, "D")

\* C7: with --docs-dir and no --html-dir, once tests, merge and export have
\* succeeded the run does not raise: the report is written, the warning is
\* printed, the HTML tool is not run, the docs directory is as it was, and the
\* run ends at the gate, with status 0 when the gate is met or disabled.
C7_DocsWithoutHtmlContinues ==
    (docs_dir /\ ~html_dir /\ InLog("export") /\ failed = "none" /\ pc # "report") =>
        /\ result # "raised"
        /\ report.gen = "fresh"
        /\ InLog("write_report")
        /\ ~InLog("show")
        /\ html_exists = initial.html_exists
        /\ html_entries = initial.html_entries
        /\ docs_exists = initial.docs_exists
        /\ docs_entries = initial.docs_entries
        /\ pc \in {"gate", "exit"} => "docs-dir without html-dir" \in warnings
        /\ pc = "exit" =>
              /\ log[Len(log)] = "gate"
              /\ (threshold <= 0 \/ line_pct + Epsilon >= threshold) => result = "return0"

\* C7 witness: such a run ended with status 0 under a positive threshold, no docs directory
C7_Witness ==
    /\ docs_dir
    /\ ~html_dir
    /\ result = "return0"
    /\ threshold > 0
    /\ ~docs_exists
    /\ report.gen = "fresh"

\* C8: when ctest is not found, the error is raised before any side effect:
\* no directory created, no raw profile deleted, no process started.
C8_MissingToolNoSideEffect ==
    (result = "raised" /\ ~ctest) =>
        /\ log = <<>>
        /\ coverage_dir = initial.coverage_dir
        /\ profraw = initial.profraw

\* C9: HTML generation and the docs mirror happen only with an HTML directory
\* configured; the old HTML directory is gone before llvm-cov show runs; the
\* docs directory is touched only after show succeeded and is empty before the
\* copy; after the copy it holds exactly the entries of the HTML directory,
\* none of which existed before the run.
C9_HtmlAndDocsOrdering ==
    /\ ~html_dir =>
          /\ ~InLog("show")
          /\ ~InLog("copy_docs")
          /\ html_exists = initial.html_exists
          /\ html_entries = initial.html_entries
    /\ pc = "show" => html_exists /\ html_entries = {}
    /\ InLog("show") => Stale(html_entries) = {}
    /\ (docs_exists # initial.docs_exists \/ docs_entries # initial.docs_entries) =>
          /\ html_dir
          /\ docs_dir
          /\ InLog("show")
          /\ failed # "show"
    /\ pc = "copy" => docs_exists /\ docs_entries = {}
    /\ InLog("copy_docs") =>
          /\ docs_entries = html_entries
          /\ docs_entries # {}
          /\ Stale(docs_entries) = {}
          /\ docs_entries \cap (initial.html_entries \cup initial.docs_entries) = {}

\* C9 witness: the copy completed over an old HTML directory and an old docs directory
C9_Witness ==
    /\ InLog("copy_docs")
    /\ initial.html_entries # {}
    /\ initial.docs_entries # {}
    /\ docs_entries = {<<"index.html", "fresh">>}

\* C10: the report is written before HTML generation, the docs copy and the
\* gate: whenever one of them has started, and so in every run that ends with
\* a threshold violation or with a failed HTML tool, the file at --output holds
\* this run's three percentages.
C10_ReportBeforeHtmlAndGate ==
    (\/ pc \in {"branch", "show", "docs", "copy", "gate"}
     \/ InLog("mkdir_html")
     \/ InLog("show")
     \/ InLog("copy_docs")
     \/ InLog("gate")) =>
        /\ InLog("write_report")
        /\ report = [gen |-> "fresh", line |-> Fmt2(line_pct),
                     func |-> Fmt2(func_pct), region |-> Fmt2(region_pct)]

\* C10 witness: a threshold violation, the old report replaced by this run's
C10_Witness ==
    /\ InLog("gate")
    /\ result = "return1"
    /\ initial.report = StaleReport
    /\ report = [gen |-> "fresh", line |-> 8499, func |-> 10000, region |-> 0]

====
